---- MODULE Spec2Model ----
(***************************************************************************)
(* The print rewrites of numba/rewrites/ir_print.py, run by the rewrite    *)
(* registry's fixpoint loop over one IR block.                             *)
(*                                                                         *)
(* Instructions are objects: `heap` maps an instruction's identity to its  *)
(* fields, a block body is a sequence of identities.  A dict is a function *)
(* whose DOMAIN is the dict's key set.                                     *)
(***************************************************************************)
EXTENDS Naturals, Sequences, FiniteSets, TLC

VARIABLES heap,      \* instruction identity -> fields
          blocks,    \* block identity -> body (sequence of instruction identities)
          block,     \* the driver's current block
          interp,    \* the interpreter's constant inference: reference -> constant or error
          rule,      \* the rewrite instance in use: its class, plan and stored block
          ri,        \* index of the rule class in the stage's registration order
          pc,        \* the driver's position: "match", "apply", "done"
          runs,      \* number of stage runs started
          cycles,    \* productive cycles of the current rule in the current run
          rule_in,   \* heap and body the current rule received
          stage_in,  \* heap and body the current stage run received
          last       \* the last operation, its result and the state it started from

vars == <<heap, blocks, block, interp, rule, ri, pc, runs, cycles, rule_in, stage_in, last>>

-----------------------------------------------------------------------------
\* Bounds of the model.

\* Longest input block.
MaxLen == 3
\* Number of times the stage is run on the block.
MaxRuns == 2
\* Cap on the productive cycles of one rule (the driver itself has no limit).
MaxCycles == 3

-----------------------------------------------------------------------------
\* Values.

None == "None"
ConstantInferenceError == "ConstantInferenceError"
EmptyDict == [k \in {} |-> None]

\* ir.Expr / ir.Const as right-hand sides of an Assign.
Expr_call(func, args, vararg, kws, loc) ==
    [vkind |-> "Expr", op |-> "call", func |-> func, args |-> args,
     vararg |-> vararg, kws |-> kws, value |-> None, loc |-> loc]

Expr_getattr(loc) ==
    [vkind |-> "Expr", op |-> "getattr", func |-> None, args |-> <<>>,
     vararg |-> None, kws |-> <<>>, value |-> None, loc |-> loc]

ir_Const(value, loc) ==
    [vkind |-> "Const", op |-> None, func |-> None, args |-> <<>>,
     vararg |-> None, kws |-> <<>>, value |-> value, loc |-> loc]

NoValue == ir_Const(None, None)

\* ir.Assign(value, target, loc)
ir_Assign(value, target, loc) ==
    [kind |-> "Assign", target |-> target, value |-> value, args |-> <<>>,
     vararg |-> None, consts |-> EmptyDict, loc |-> loc]

\* ir.Print(args, vararg, loc): the constant mapping starts empty.
ir_Print(args, vararg, loc) ==
    [kind |-> "Print", target |-> None, value |-> NoValue, args |-> args,
     vararg |-> vararg, consts |-> EmptyDict, loc |-> loc]

\* The instructions an input block is drawn from.
Pool ==
    { ir_Assign(Expr_call("f", <<"x", "y">>, None, <<>>, "L2"), "r", "L1"),
      ir_Assign(Expr_call("g", <<"y">>, "x", <<>>, "L3"), "s", "L3"),
      ir_Assign(Expr_call("f", <<"x">>, None, << <<"fmt", "y">> >>, "L4"), "s", "L4"),
      ir_Assign(ir_Const("c1", "L5"), "r", "L5"),
      ir_Assign(Expr_getattr("L6"), "r", "L6"),
      ir_Print(<<"x", "y">>, None, "L7") }

Bodies == UNION { [1..n -> Pool] : n \in 0..MaxLen }

\* The interpreters: what infer_constant answers for each reference.
Interps ==
    { [f |-> cf, g |-> cg, x |-> cx, y |-> cy] :
        cf \in {"print", "len"}, cg \in {"print", ConstantInferenceError},
        cx \in {"c1", ConstantInferenceError}, cy \in {"c2", ConstantInferenceError} }

\* interp.infer_constant(ref): the constant, or the error it raises.
infer_constant(o, ref) == o[ref]

\* block.find_insts(cls): the instructions of that class, in body order.
find_insts(h, body, cls) == SelectSeq(body, LAMBDA i : h[i].kind = cls)

\* The rule classes registered in the opposite order.
Registry_reversed == <<"DetectConstPrintArguments", "RewritePrintCalls">>

\* The stage's rule classes, in registration order.
Registry == <<"RewritePrintCalls", "DetectConstPrintArguments">>

\* A new rule instance: no plan, no block.
NewRule(cls) == [cls |-> cls, plan |-> EmptyDict, block |-> 0]

Snapshot == [heap |-> heap, body |-> blocks[block], block |-> block]

-----------------------------------------------------------------------------
\* RewritePrintCalls

\* RPC_visit without the keyword-argument test.
RPC_visit_kws(h, o, inst, prints) ==
    LET expr == h[inst].value IN
    IF expr.vkind = "Expr" /\ expr.op = "call"
    THEN LET callee == infer_constant(o, expr.func) IN
         IF callee = ConstantInferenceError
         THEN prints
         ELSE IF callee = "print"
              THEN (inst :> expr) @@ prints
              ELSE prints
    ELSE prints

\* RPC_visit planning every call whose callee is a constant, print or not.
RPC_visit_anycallee(h, o, inst, prints) ==
    LET expr == h[inst].value IN
    IF expr.vkind = "Expr" /\ expr.op = "call"
    THEN IF expr.kws # <<>>
         THEN prints
         ELSE LET callee == infer_constant(o, expr.func) IN
              IF callee = ConstantInferenceError
              THEN prints
              ELSE (inst :> expr) @@ prints
    ELSE prints

\* RPC_visit skipping calls that have a vararg, like calls with keyword arguments.
RPC_visit_novararg(h, o, inst, prints) ==
    LET expr == h[inst].value IN
    IF expr.vkind = "Expr" /\ expr.op = "call"
    THEN IF expr.kws # <<>> \/ expr.vararg # None
         THEN prints
         ELSE LET callee == infer_constant(o, expr.func) IN
              IF callee = ConstantInferenceError
              THEN prints
              ELSE IF callee = "print"
                   THEN (inst :> expr) @@ prints
                   ELSE prints
    ELSE prints

\* RPC_visit planning no further call once one is planned.
RPC_visit_single(h, o, inst, prints) ==
    LET expr == h[inst].value IN
    IF expr.vkind = "Expr" /\ expr.op = "call"
    THEN IF expr.kws # <<>> \/ DOMAIN prints # {}
         THEN prints
         ELSE LET callee == infer_constant(o, expr.func) IN
              IF callee = ConstantInferenceError
              THEN prints
              ELSE IF callee = "print"
                   THEN (inst :> expr) @@ prints
                   ELSE prints
    ELSE prints

\* The body of match's loop for one Assign: the plan after visiting `inst`.
RPC_visit(h, o, inst, prints) ==
    LET expr == h[inst].value IN
    IF expr.vkind = "Expr" /\ expr.op = "call"
    THEN IF expr.kws # <<>>
         THEN prints                                  \* only positional args
         ELSE LET callee == infer_constant(o, expr.func) IN
              IF callee = ConstantInferenceError
              THEN prints                             \* except: continue
              ELSE IF callee = "print"
                   THEN (inst :> expr) @@ prints      \* prints[inst] = expr
                   ELSE prints
    ELSE prints

RECURSIVE RPC_scan(_, _, _, _, _)
\* match's loop over block.find_insts(ir.Assign), from the k-th on.
RPC_scan(h, o, insts, k, prints) ==
    IF k > Len(insts)
    THEN prints
    ELSE RPC_scan(h, o, insts, k + 1, RPC_visit(h, o, insts[k], prints))

\* RewritePrintCalls.match: the plan self.prints; it returns len(prints) > 0.
RPC_match(h, o, body) == RPC_scan(h, o, find_insts(h, body, "Assign"), 1, EmptyDict)

\* RPC_nodes appending the assignment before the print node.
RPC_nodes_swapped(h, inst, expr) ==
    << ir_Assign(ir_Const(None, expr.loc), h[inst].target, h[inst].loc),
       ir_Print(expr.args, expr.vararg, expr.loc) >>

\* RPC_nodes assigning the call again instead of the constant None.
RPC_nodes_recall(h, inst, expr) ==
    << ir_Print(expr.args, expr.vararg, expr.loc),
       ir_Assign(expr, h[inst].target, h[inst].loc) >>

\* RPC_nodes giving the print node the location of the instruction, not of the call.
RPC_nodes_instloc(h, inst, expr) ==
    << ir_Print(expr.args, expr.vararg, h[inst].loc),
       ir_Assign(ir_Const(None, expr.loc), h[inst].target, h[inst].loc) >>

\* The two nodes apply puts in place of a planned instruction: print_node, assign_node.
RPC_nodes(h, inst, expr) ==
    << ir_Print(expr.args, expr.vararg, expr.loc),
       ir_Assign(ir_Const(None, expr.loc), h[inst].target, h[inst].loc) >>

RECURSIVE RPC_build_front(_, _, _, _, _)
\* RPC_build inserting the two new nodes at the head of new_block.
RPC_build_front(h, prints, body, k, new_body) ==
    IF k > Len(body)
    THEN [heap |-> h, body |-> new_body]
    ELSE LET inst == body[k] IN
         IF inst \in DOMAIN prints
         THEN RPC_build_front(h \o RPC_nodes(h, inst, prints[inst]), prints, body,
                              k + 1, <<Len(h) + 1, Len(h) + 2>> \o new_body)
         ELSE RPC_build_front(h, prints, body, k + 1, Append(new_body, inst))

RECURSIVE RPC_build(_, _, _, _, _)
\* apply's loop over self.block.body, from the k-th instruction on: the heap
\* with the new nodes and the body of new_block.
RPC_build(h, prints, body, k, new_body) ==
    IF k > Len(body)
    THEN [heap |-> h, body |-> new_body]
    ELSE LET inst == body[k] IN
         IF inst \in DOMAIN prints
         THEN RPC_build(h \o RPC_nodes(h, inst, prints[inst]), prints, body,
                        k + 1, new_body \o <<Len(h) + 1, Len(h) + 2>>)
         ELSE RPC_build(h, prints, body, k + 1, Append(new_body, inst))

\* RewritePrintCalls.apply: new_block starts as a cleared copy of self.block.
RPC_apply(h, prints, body) == RPC_build(h, prints, body, 1, <<>>)

-----------------------------------------------------------------------------
\* DetectConstPrintArguments

RECURSIVE DCPA_args_1based(_, _, _, _, _)
\* DCPA_args recording the argument's 1-based position.
DCPA_args_1based(h, o, inst, idx, consts) ==
    IF idx >= Len(h[inst].args)
    THEN consts
    ELSE LET const == infer_constant(o, h[inst].args[idx + 1]) IN
         IF const = ConstantInferenceError
         THEN DCPA_args_1based(h, o, inst, idx + 1, consts)
         ELSE LET d == IF inst \in DOMAIN consts THEN consts[inst] ELSE EmptyDict
              IN DCPA_args_1based(h, o, inst, idx + 1,
                                  (inst :> (((idx + 1) :> const) @@ d)) @@ consts)

RECURSIVE DCPA_args_break(_, _, _, _, _)
\* DCPA_args leaving the loop at the first argument that is not a constant.
DCPA_args_break(h, o, inst, idx, consts) ==
    IF idx >= Len(h[inst].args)
    THEN consts
    ELSE LET const == infer_constant(o, h[inst].args[idx + 1]) IN
         IF const = ConstantInferenceError
         THEN consts
         ELSE LET d == IF inst \in DOMAIN consts THEN consts[inst] ELSE EmptyDict
              IN DCPA_args_break(h, o, inst, idx + 1,
                                 (inst :> ((idx :> const) @@ d)) @@ consts)

RECURSIVE DCPA_args(_, _, _, _, _)
\* match's inner loop over enumerate(inst.args), from index idx (0-based) on.
DCPA_args(h, o, inst, idx, consts) ==
    IF idx >= Len(h[inst].args)
    THEN consts
    ELSE LET const == infer_constant(o, h[inst].args[idx + 1]) IN
         IF const = ConstantInferenceError
         THEN DCPA_args(h, o, inst, idx + 1, consts)          \* except: continue
         ELSE LET d == IF inst \in DOMAIN consts THEN consts[inst] ELSE EmptyDict
              IN DCPA_args(h, o, inst, idx + 1,
                           (inst :> ((idx :> const) @@ d)) @@ consts)

\* DCPA_visit without the already-rewritten test.
DCPA_visit_noguard(h, o, inst, consts) == DCPA_args(h, o, inst, 0, consts)

\* DCPA_visit entering the node in the plan before it looks at the arguments.
DCPA_visit_eager(h, o, inst, consts) ==
    IF DOMAIN h[inst].consts # {}
    THEN consts
    ELSE DCPA_args(h, o, inst, 0, (inst :> EmptyDict) @@ consts)

\* The body of match's loop for one Print node.
DCPA_visit(h, o, inst, consts) ==
    IF DOMAIN h[inst].consts # {}
    THEN consts                                       \* already rewritten
    ELSE DCPA_args(h, o, inst, 0, consts)

RECURSIVE DCPA_scan(_, _, _, _, _)
\* match's loop over block.find_insts(ir.Print), from the k-th on.
DCPA_scan(h, o, insts, k, consts) ==
    IF k > Len(insts)
    THEN consts
    ELSE DCPA_scan(h, o, insts, k + 1, DCPA_visit(h, o, insts[k], consts))

\* DetectConstPrintArguments.match: the plan self.consts; it returns len(consts) > 0.
DCPA_match(h, o, body) == DCPA_scan(h, o, find_insts(h, body, "Print"), 1, EmptyDict)

RECURSIVE DCPA_store(_, _, _, _)
\* apply's loop over self.block.body, from the k-th on: the nodes are written in place.
DCPA_store(h, consts, body, k) ==
    IF k > Len(body)
    THEN h
    ELSE LET inst == body[k] IN
         IF inst \in DOMAIN consts
         THEN DCPA_store([h EXCEPT ![inst].consts = consts[inst]], consts, body, k + 1)
         ELSE DCPA_store(h, consts, body, k + 1)

\* DetectConstPrintArguments.apply: the heap after it; it returns self.block.
DCPA_apply(h, consts, body) == DCPA_store(h, consts, body, 1)

-----------------------------------------------------------------------------
\* The driver: for each rule class in order, match/apply until match is false.

Init ==
    /\ \E body \in Bodies :
         /\ heap = body
         /\ blocks = << [i \in 1..Len(body) |-> i] >>
         /\ rule_in = [heap |-> body, body |-> [i \in 1..Len(body) |-> i], block |-> 1]
         /\ stage_in = [heap |-> body, body |-> [i \in 1..Len(body) |-> i], block |-> 1]
         /\ last = [op |-> "init", cls |-> None, ret |-> FALSE, heap |-> body,
                    body |-> [i \in 1..Len(body) |-> i], block |-> 1, plan |-> EmptyDict]
    /\ block = 1
    /\ interp \in Interps
    /\ rule = NewRule(Registry[1])
    /\ ri = 1
    /\ pc = "match"
    /\ runs = 1
    /\ cycles = 0

\* `while rule.match(...)`: match has stored `plan` and the block on the
\* instance and returned whether the plan is non-empty.
Matched(plan) ==
    LET ret == DOMAIN plan # {} IN
    /\ last' = [op |-> "match", cls |-> rule.cls, ret |-> ret, heap |-> heap,
                body |-> blocks[block], block |-> block, plan |-> plan]
    /\ IF ret
       THEN /\ rule' = [cls |-> rule.cls, plan |-> plan, block |-> block]
            /\ pc' = "apply"
            /\ UNCHANGED <<ri, cycles, rule_in>>
       ELSE IF ri < Len(Registry)
            THEN /\ rule' = NewRule(Registry[ri + 1])
                 /\ ri' = ri + 1
                 /\ pc' = "match"
                 /\ cycles' = 0
                 /\ rule_in' = Snapshot
            ELSE /\ rule' = [cls |-> rule.cls, plan |-> plan, block |-> block]
                 /\ pc' = "done"
                 /\ UNCHANGED <<ri, cycles, rule_in>>
    /\ UNCHANGED <<heap, blocks, block, interp, runs, stage_in>>

\* `block = rule.apply()` followed by a fresh instance of the same class.
Applied(h, bs, b) ==
    /\ heap' = h
    /\ blocks' = bs
    /\ block' = b
    /\ rule' = NewRule(rule.cls)
    /\ pc' = "match"
    /\ cycles' = cycles + 1
    /\ last' = [op |-> "apply", cls |-> rule.cls, ret |-> TRUE, heap |-> heap,
                body |-> blocks[block], block |-> block, plan |-> rule.plan]
    /\ UNCHANGED <<interp, ri, runs, rule_in, stage_in>>

\* RewritePrintCalls_match without `self.block = block`.
RewritePrintCalls_match_noblock ==
    /\ pc = "match"
    /\ rule.cls = "RewritePrintCalls"
    /\ LET plan == RPC_match(heap, interp, blocks[block]) IN
       /\ rule' = [cls |-> rule.cls, plan |-> plan, block |-> rule.block]
       /\ pc' = IF DOMAIN plan # {} THEN "apply" ELSE "done"
       /\ last' = [op |-> "match", cls |-> rule.cls, ret |-> DOMAIN plan # {},
                   heap |-> heap, body |-> blocks[block], block |-> block, plan |-> plan]
    /\ UNCHANGED <<heap, blocks, block, interp, ri, runs, cycles, rule_in, stage_in>>

RewritePrintCalls_match ==
    /\ pc = "match"
    /\ rule.cls = "RewritePrintCalls"
    /\ Matched(RPC_match(heap, interp, blocks[block]))

\* RewritePrintCalls_apply clearing self.block itself instead of a copy of it.
RewritePrintCalls_apply_nocopy ==
    /\ pc = "apply"
    /\ rule.cls = "RewritePrintCalls"
    /\ cycles < MaxCycles
    /\ Applied(heap, [blocks EXCEPT ![rule.block] = <<>>], rule.block)

RewritePrintCalls_apply ==
    /\ pc = "apply"
    /\ rule.cls = "RewritePrintCalls"
    /\ cycles < MaxCycles
    /\ LET r == RPC_apply(heap, rule.plan, blocks[rule.block])
       IN Applied(r.heap, Append(blocks, r.body), Len(blocks) + 1)

\* DetectConstPrintArguments_match storing the constants on the nodes as it finds them.
DetectConstPrintArguments_match_inplace ==
    /\ pc = "match"
    /\ rule.cls = "DetectConstPrintArguments"
    /\ LET plan == DCPA_match(heap, interp, blocks[block]) IN
       /\ heap' = DCPA_apply(heap, plan, blocks[block])
       /\ rule' = [cls |-> rule.cls, plan |-> plan, block |-> block]
       /\ pc' = IF DOMAIN plan # {} THEN "apply" ELSE "done"
       /\ last' = [op |-> "match", cls |-> rule.cls, ret |-> DOMAIN plan # {},
                   heap |-> heap, body |-> blocks[block], block |-> block, plan |-> plan]
    /\ UNCHANGED <<blocks, block, interp, ri, runs, cycles, rule_in, stage_in>>

DetectConstPrintArguments_match ==
    /\ pc = "match"
    /\ rule.cls = "DetectConstPrintArguments"
    /\ Matched(DCPA_match(heap, interp, blocks[block]))

DetectConstPrintArguments_apply ==
    /\ pc = "apply"
    /\ rule.cls = "DetectConstPrintArguments"
    /\ cycles < MaxCycles
    /\ Applied(DCPA_apply(heap, rule.plan, blocks[rule.block]), blocks, rule.block)

\* The stage is run again on the block it returned.
Rerun ==
    /\ pc = "done"
    /\ runs < MaxRuns
    /\ runs' = runs + 1
    /\ rule' = NewRule(Registry[1])
    /\ ri' = 1
    /\ pc' = "match"
    /\ cycles' = 0
    /\ rule_in' = Snapshot
    /\ stage_in' = Snapshot
    /\ last' = [op |-> "rerun", cls |-> None, ret |-> FALSE, heap |-> heap,
                body |-> blocks[block], block |-> block, plan |-> EmptyDict]
    /\ UNCHANGED <<heap, blocks, block, interp>>

Next ==
    \/ RewritePrintCalls_match
    \/ RewritePrintCalls_apply
    \/ DetectConstPrintArguments_match
    \/ DetectConstPrintArguments_apply
    \/ Rerun

Spec == Init /\ [][Next]_vars

\* The driver is a sequential loop: it always takes its next step.
FairSpec == Spec /\ WF_vars(Next)

-----------------------------------------------------------------------------
\* Vocabulary of the properties, stated on the instructions themselves.

Range(seq) == { seq[j] : j \in 1..Len(seq) }

IsCall(h, i) ==
    h[i].kind = "Assign" /\ h[i].value.vkind = "Expr" /\ h[i].value.op = "call"

HasKws(h, i) == IsCall(h, i) /\ Len(h[i].value.kws) > 0

\* A trigger of RewritePrintCalls: a call without keyword arguments whose
\* callee the interpreter resolves to print.
IsPrintCall(h, o, i) ==
    IsCall(h, i) /\ Len(h[i].value.kws) = 0 /\ o[h[i].value.func] = "print"

IsPrintNode(h, i) == h[i].kind = "Print"

\* The 0-based argument positions of a Print node the interpreter resolves.
Resolved(h, o, i) ==
    { idx \in 0..(Len(h[i].args) - 1) : o[h[i].args[idx + 1]] # ConstantInferenceError }

\* A trigger of DetectConstPrintArguments.
IsConstTrigger(h, o, i) ==
    IsPrintNode(h, i) /\ DOMAIN h[i].consts = {} /\ Resolved(h, o, i) # {}

AfterApply(cls) == last.op = "apply" /\ last.cls = cls
AfterMatch(cls) == last.op = "match" /\ last.cls = cls

\* Positions of the body `last` started from that hold a print call.
LastTriggers == { j \in 1..Len(last.body) : IsPrintCall(last.heap, interp, last.body[j]) }

-----------------------------------------------------------------------------
\* C1: one match/apply cycle of RewritePrintCalls puts, at the place of each
\* Assign of a keyword-free call whose callee resolves to print, two adjacent
\* new instructions: a Print node with the call's args and vararg, the call
\* expression's location and an empty constant mapping, then an Assign of the
\* constant None to the original target at the original instruction's location.
C1_PrintCallReplaced ==
    AfterApply("RewritePrintCalls") =>
        LET new == blocks[block] IN
        /\ Len(new) = Len(last.body) + Cardinality(LastTriggers)
        /\ \A j \in LastTriggers :
             LET inst == last.heap[last.body[j]]
                 at == j + Cardinality({ m \in LastTriggers : m < j })
                 p == heap[new[at]]
                 a == heap[new[at + 1]]
             IN /\ last.body[j] \notin Range(new)
                /\ new[at] \notin DOMAIN last.heap
                /\ new[at + 1] \notin DOMAIN last.heap
                /\ p.kind = "Print"
                /\ p.args = inst.value.args
                /\ p.vararg = inst.value.vararg
                /\ p.loc = inst.value.loc
                /\ DOMAIN p.consts = {}
                /\ a.kind = "Assign"
                /\ a.target = inst.target
                /\ a.value.vkind = "Const"
                /\ a.value.value = None
                /\ a.loc = inst.loc

\* Two print calls were rewritten, one with a vararg and one whose expression
\* and instruction locations differ.
C1_Witness ==
    /\ AfterApply("RewritePrintCalls")
    /\ Cardinality(LastTriggers) >= 2
    /\ \E j \in LastTriggers : last.heap[last.body[j]].value.vararg # None
    /\ \E j \in LastTriggers :
         last.heap[last.body[j]].value.loc # last.heap[last.body[j]].loc

-----------------------------------------------------------------------------
\* C2: an Assign whose call has keyword arguments is never in the plan of
\* RewritePrintCalls and, whatever the number of cycles, is still in the
\* stage's block, as the same unchanged instruction, even when its callee
\* resolves to print.
C2_KeywordCallsUntouched ==
    \A j \in 1..Len(stage_in.body) :
        LET i == stage_in.body[j] IN
        HasKws(stage_in.heap, i) =>
            /\ i \notin DOMAIN rule.plan
            /\ i \notin DOMAIN last.plan
            /\ Cardinality({ m \in 1..Len(blocks[block]) : blocks[block][m] = i }) = 1
            /\ heap[i] = stage_in.heap[i]

\* The stage is over, it rewrote a print call, and the block holds a call
\* with keyword arguments whose callee resolves to print.
C2_Witness ==
    /\ pc = "done"
    /\ runs = 1
    /\ block # stage_in.block
    /\ \E i \in Range(blocks[block]) :
         HasKws(heap, i) /\ interp[heap[i].value.func] = "print"

-----------------------------------------------------------------------------
\* C3: after one match/apply cycle of DetectConstPrintArguments, a Print node
\* whose constant mapping was empty maps index i to c exactly when the
\* interpreter resolves its i-th argument to c; other indices are absent.
C3_PartialConstants ==
    (AfterApply("DetectConstPrintArguments")
       \/ (AfterMatch("DetectConstPrintArguments") /\ ~last.ret)) =>
        \A i \in Range(last.body) :
            (IsPrintNode(last.heap, i) /\ DOMAIN last.heap[i].consts = {}) =>
                /\ DOMAIN heap[i].consts = Resolved(last.heap, interp, i)
                /\ \A idx \in DOMAIN heap[i].consts :
                     heap[i].consts[idx] = interp[last.heap[i].args[idx + 1]]

\* A two-argument Print node came out with a constant for index 0 only.
C3_Witness ==
    /\ AfterApply("DetectConstPrintArguments")
    /\ \E i \in Range(last.body) :
         /\ IsPrintNode(last.heap, i)
         /\ Len(heap[i].args) = 2
         /\ DOMAIN last.heap[i].consts = {}
         /\ DOMAIN heap[i].consts = {0}

-----------------------------------------------------------------------------
\* C4: when the stage is run a second time on the block it returned, every
\* Print node keeps the constant mapping the first run left; the match of
\* DetectConstPrintArguments never plans a node that is already annotated,
\* and in the second run it returns false.
C4_AnnotationIdempotent ==
    /\ AfterMatch("DetectConstPrintArguments") =>
         \A i \in DOMAIN last.plan : DOMAIN last.heap[i].consts = {}
    /\ runs >= 2 =>
         /\ \A i \in Range(stage_in.body) :
              IsPrintNode(stage_in.heap, i) =>
                  (i \in Range(blocks[block]) /\ heap[i].consts = stage_in.heap[i].consts)
         /\ AfterMatch("DetectConstPrintArguments") => (~last.ret /\ DOMAIN last.plan = {})
         /\ ~AfterApply("DetectConstPrintArguments")

\* The second run's match found a block whose Print node the first run had
\* annotated with one of its two arguments.
C4_Witness ==
    /\ runs = 2
    /\ AfterMatch("DetectConstPrintArguments")
    /\ \E i \in Range(last.body) :
         /\ IsPrintNode(heap, i)
         /\ Len(heap[i].args) = 2
         /\ Cardinality(DOMAIN heap[i].consts) = 1

-----------------------------------------------------------------------------
\* C5: an index present in a Print node's constant mapping stays there with
\* its value through every later operation of the stage, and a node with a
\* non-empty mapping is in no plan.
C5_ConstantsFinal ==
    /\ \A i \in DOMAIN last.heap :
         \A idx \in DOMAIN last.heap[i].consts :
             /\ idx \in DOMAIN heap[i].consts
             /\ heap[i].consts[idx] = last.heap[i].consts[idx]
    /\ \A i \in DOMAIN rule.plan : DOMAIN heap[i].consts = {}

\* A match of DetectConstPrintArguments ran over a node annotated by an
\* earlier cycle of the same stage run.
C5_Witness ==
    /\ AfterMatch("DetectConstPrintArguments")
    /\ cycles = 1
    /\ \E i \in Range(last.body) : DOMAIN last.heap[i].consts # {}

-----------------------------------------------------------------------------
\* Number of triggers of the current rule in the block it received.
TriggerCount ==
    IF Registry[ri] = "RewritePrintCalls"
    THEN Cardinality({ j \in 1..Len(rule_in.body) :
                         IsPrintCall(rule_in.heap, interp, rule_in.body[j]) })
    ELSE Cardinality({ j \in 1..Len(rule_in.body) :
                         IsConstTrigger(rule_in.heap, interp, rule_in.body[j]) })

StageOver == pc = "done" /\ runs = MaxRuns

\* C6: each rule's match/apply loop ends, after no more productive cycles
\* than the block it received has triggers of that rule.
C6_FixpointTerminates == [](cycles <= TriggerCount) /\ <>StageOver

\* The loop of DetectConstPrintArguments ended after one productive cycle on
\* a block with two triggers.
C6_Witness ==
    /\ pc = "done"
    /\ Registry[ri] = "DetectConstPrintArguments"
    /\ cycles = 1
    /\ TriggerCount >= 2

-----------------------------------------------------------------------------
NoTriggers(h, o, body) ==
    \A j \in 1..Len(body) :
        ~IsPrintCall(h, o, body[j]) /\ ~IsConstTrigger(h, o, body[j])

\* C7: when the stage's input has no trigger of either rule, the stage
\* returns its instructions in the same order with every field as it was.
C7_NoTriggerNoChange ==
    (pc = "done" /\ NoTriggers(stage_in.heap, interp, stage_in.body)) =>
        /\ blocks[block] = stage_in.body
        /\ \A i \in Range(stage_in.body) : heap[i] = stage_in.heap[i]

\* The first run ended on a three-instruction block without triggers that
\* holds a call whose callee is a constant other than print, a call with
\* keyword arguments to print, or a Print node without constant arguments.
C7_Witness ==
    /\ pc = "done"
    /\ runs = 1
    /\ Len(stage_in.body) = 3
    /\ NoTriggers(stage_in.heap, interp, stage_in.body)
    /\ \E i \in Range(stage_in.body) : IsPrintNode(heap, i)
    /\ \E i \in Range(stage_in.body) :
         IsCall(heap, i) /\ ~HasKws(heap, i) /\ interp[heap[i].value.func] = "len"

-----------------------------------------------------------------------------
\* C8 as stated: apply of either rule returns a block other than the one
\* match scanned and leaves that block and all its instructions as they were.
C8_ApplyNeverMutates ==
    last.op = "apply" =>
        /\ block # last.block
        /\ blocks[last.block] = last.body
        /\ \A i \in DOMAIN last.heap : heap[i] = last.heap[i]

\* C8 amended: RewritePrintCalls.apply returns a new block and leaves the
\* scanned block and its instructions as they were; DetectConstPrintArguments.apply
\* returns the scanned block itself with the same instruction sequence, and
\* changes in place the constant mapping of the planned Print nodes and
\* nothing else.
C8_ApplyFrame ==
    /\ AfterApply("RewritePrintCalls") =>
         /\ block # last.block
         /\ block \notin 1..last.block
         /\ blocks[last.block] = last.body
         /\ \A i \in DOMAIN last.heap : heap[i] = last.heap[i]
    /\ AfterApply("DetectConstPrintArguments") =>
         /\ block = last.block
         /\ blocks[block] = last.body
         /\ DOMAIN heap = DOMAIN last.heap
         /\ \A i \in DOMAIN last.heap :
              IF i \in DOMAIN last.plan
              THEN heap[i] = [last.heap[i] EXCEPT !.consts = last.plan[i]]
              ELSE heap[i] = last.heap[i]

\* DetectConstPrintArguments.apply wrote a constant mapping on a node of a
\* block that RewritePrintCalls.apply had returned.
C8_Witness ==
    /\ AfterApply("DetectConstPrintArguments")
    /\ block > 1
    /\ heap # last.heap

-----------------------------------------------------------------------------
\* C9: match of either rule leaves the block's instruction sequence and every
\* field of every instruction as they were, whatever it returns.
C9_MatchReadOnly ==
    last.op = "match" =>
        /\ block = last.block
        /\ blocks[block] = last.body
        /\ heap = last.heap

\* A match of DetectConstPrintArguments planned constants and the node's
\* mapping is still empty.
C9_Witness ==
    /\ AfterMatch("DetectConstPrintArguments")
    /\ last.ret
    /\ \E i \in DOMAIN last.plan : last.plan[i] # EmptyDict /\ DOMAIN heap[i].consts = {}

-----------------------------------------------------------------------------
\* C10: when the interpreter cannot resolve some of the references match
\* queries, match still returns a boolean; the plan leaves out exactly the
\* candidates that failed and holds every other one, also those that come
\* after a failure in the block or in the argument list.
C10_InferenceErrorsSkipped ==
    last.op = "match" =>
        /\ pc \in {"match", "apply", "done"}
        /\ last.ret \in BOOLEAN
        /\ last.cls = "RewritePrintCalls" =>
             DOMAIN last.plan = { i \in Range(last.body) : IsPrintCall(last.heap, interp, i) }
        /\ last.cls = "DetectConstPrintArguments" =>
             /\ DOMAIN last.plan =
                  { i \in Range(last.body) : IsConstTrigger(last.heap, interp, i) }
             /\ \A i \in DOMAIN last.plan :
                  DOMAIN last.plan[i] = Resolved(last.heap, interp, i)

\* The match of DetectConstPrintArguments planned index 1 of a node whose
\* argument 0 failed, in a stage whose input had a call with a failing callee
\* before a print call that RewritePrintCalls planned and replaced.
C10_Witness ==
    /\ AfterMatch("DetectConstPrintArguments")
    /\ \E i \in DOMAIN last.plan : DOMAIN last.plan[i] = {1}
    /\ \E j, m \in 1..Len(stage_in.body) :
         /\ j < m
         /\ IsCall(stage_in.heap, stage_in.body[j])
         /\ interp[stage_in.heap[stage_in.body[j]].value.func] = ConstantInferenceError
         /\ IsPrintCall(stage_in.heap, interp, stage_in.body[m])
         /\ stage_in.body[m] \notin Range(blocks[block])

-----------------------------------------------------------------------------
\* C11 as stated: both instructions RewritePrintCalls emits for a print call
\* carry the location of the original Assign instruction.
C11_BothAtAssignLocation ==
    AfterApply("RewritePrintCalls") =>
        \A j \in LastTriggers :
            LET inst == last.heap[last.body[j]]
                at == j + Cardinality({ m \in LastTriggers : m < j })
            IN /\ heap[blocks[block][at]].loc = inst.loc
               /\ heap[blocks[block][at + 1]].loc = inst.loc

\* C11 amended: the replacement Assign carries the location of the original
\* Assign instruction and the Print node carries the location of the call
\* expression, which is the Assign's location only when the two coincide.
C11_EmittedLocations ==
    AfterApply("RewritePrintCalls") =>
        \A j \in LastTriggers :
            LET inst == last.heap[last.body[j]]
                at == j + Cardinality({ m \in LastTriggers : m < j })
                p == heap[blocks[block][at]]
                a == heap[blocks[block][at + 1]]
            IN /\ p.kind = "Print"
               /\ a.kind = "Assign"
               /\ a.loc = inst.loc
               /\ p.loc = inst.value.loc
               /\ (p.loc = inst.loc) <=> (inst.value.loc = inst.loc)

\* A print call whose expression and instruction locations differ was
\* rewritten, next to one whose locations are the same.
C11_Witness ==
    /\ AfterApply("RewritePrintCalls")
    /\ \E j \in LastTriggers :
         last.heap[last.body[j]].value.loc # last.heap[last.body[j]].loc
    /\ \E j \in LastTriggers :
         last.heap[last.body[j]].value.loc = last.heap[last.body[j]].loc

-----------------------------------------------------------------------------
\* The constant mapping DetectConstPrintArguments owes a node with these arguments.
ConstsOf(o, args) ==
    [ idx \in { n \in 0..(Len(args) - 1) : o[args[n + 1]] # ConstantInferenceError }
        |-> o[args[idx + 1]] ]

\* C12: the rules run in registration order, RewritePrintCalls to its
\* fixpoint before DetectConstPrintArguments starts, so that no print call is
\* left when DetectConstPrintArguments scans the block, and at the end of the
\* stage every print call of the input has become a Print node whose constant
\* mapping holds exactly the arguments the interpreter resolves.
C12_RulesChained ==
    /\ rule.cls = Registry[ri]
    /\ rule.cls = "DetectConstPrintArguments" =>
         \A i \in Range(blocks[block]) : ~IsPrintCall(heap, interp, i)
    /\ pc = "done" =>
         \A j \in 1..Len(stage_in.body) :
             IsPrintCall(stage_in.heap, interp, stage_in.body[j]) =>
                 LET expr == stage_in.heap[stage_in.body[j]].value
                     at == j + Cardinality({ m \in 1..(j - 1) :
                              IsPrintCall(stage_in.heap, interp, stage_in.body[m]) })
                     p == heap[blocks[block][at]]
                 IN /\ p.kind = "Print"
                    /\ p.args = expr.args
                    /\ p.consts = ConstsOf(interp, expr.args)

\* The stage ended on r = print(x, y) with x resolved and y not: the Print
\* node's mapping is {0: c1}.
C12_Witness ==
    /\ pc = "done"
    /\ runs = 1
    /\ interp["x"] = "c1"
    /\ interp["y"] = ConstantInferenceError
    /\ \E j \in 1..Len(stage_in.body) :
         /\ IsPrintCall(stage_in.heap, interp, stage_in.body[j])
         /\ stage_in.heap[stage_in.body[j]].value.args = <<"x", "y">>
    /\ \E i \in Range(blocks[block]) :
         /\ IsPrintNode(heap, i)
         /\ i \notin DOMAIN stage_in.heap
         /\ heap[i].consts = (0 :> "c1")

-----------------------------------------------------------------------------
\* C13: RewritePrintCalls.apply carries each instruction that is not planned
\* over as the same instruction, in the same relative order, and puts the two
\* new instructions of each planned one where that one stood.
C13_OthersCarriedOver ==
    AfterApply("RewritePrintCalls") =>
        LET new == blocks[block]
            shift(j) == Cardinality({ m \in LastTriggers : m < j })
        IN /\ Len(new) = Len(last.body) + Cardinality(LastTriggers)
           /\ \A j \in 1..Len(last.body) :
                IF j \in LastTriggers
                THEN /\ new[j + shift(j)] = Len(last.heap) + 2 * shift(j) + 1
                     /\ new[j + shift(j) + 1] = Len(last.heap) + 2 * shift(j) + 2
                     /\ heap[new[j + shift(j)]].kind = "Print"
                     /\ heap[new[j + shift(j) + 1]].target = last.heap[last.body[j]].target
                ELSE /\ new[j + shift(j)] = last.body[j]
                     /\ heap[last.body[j]] = last.heap[last.body[j]]

\* Two print calls with an instruction that is not one between them.
C13_Witness ==
    /\ AfterApply("RewritePrintCalls")
    /\ Len(last.body) = 3
    /\ LastTriggers = {1, 3}

-----------------------------------------------------------------------------
\* C14: apply is only called on the instance whose match has just returned
\* true, with the plan and the block of that match; after apply the driver
\* holds a fresh instance, without plan or block, and the block apply
\* returned, so that a plan only ever has instructions of the block it was
\* computed on.
C14_MatchApplyProtocol ==
    /\ pc = "apply" =>
         /\ last.op = "match"
         /\ last.ret
         /\ last.cls = rule.cls
         /\ rule.plan = last.plan
         /\ rule.block = last.block
         /\ rule.block = block
         /\ blocks[rule.block] = last.body
         /\ DOMAIN rule.plan \subseteq Range(blocks[rule.block])
    /\ pc = "match" => rule = NewRule(Registry[ri])
    /\ last.op = "apply" =>
         /\ pc = "match"
         /\ rule = NewRule(last.cls)
         /\ DOMAIN last.plan # {}
         /\ DOMAIN last.plan \subseteq Range(last.body)
         /\ IF last.cls = "RewritePrintCalls"
            THEN block = Len(blocks) /\ block # last.block
            ELSE block = last.block

\* The second rule's apply is about to run on the block the first rule's
\* apply returned.
C14_Witness ==
    /\ pc = "apply"
    /\ rule.cls = "DetectConstPrintArguments"
    /\ block > 1
    /\ DOMAIN rule.plan # {}

-----------------------------------------------------------------------------
\* C15: match returns true exactly when its plan is not empty, that is, for
\* RewritePrintCalls when the block has a keyword-free call whose callee
\* resolves to print, and for DetectConstPrintArguments when a Print node with
\* an empty constant mapping has an argument the interpreter resolves.
C15_MatchResult ==
    last.op = "match" =>
        /\ last.ret <=> (DOMAIN last.plan # {})
        /\ last.cls = "RewritePrintCalls" =>
             (last.ret <=> \E i \in Range(last.body) : IsPrintCall(last.heap, interp, i))
        /\ last.cls = "DetectConstPrintArguments" =>
             (last.ret <=> \E i \in Range(last.body) : IsConstTrigger(last.heap, interp, i))
        /\ last.ret <=> (pc = "apply")

\* DetectConstPrintArguments.match returned false on a block that has a Print
\* node with an empty mapping and no resolvable argument.
C15_Witness ==
    /\ AfterMatch("DetectConstPrintArguments")
    /\ ~last.ret
    /\ \E i \in Range(last.body) :
         /\ IsPrintNode(last.heap, i)
         /\ DOMAIN last.heap[i].consts = {}
         /\ Len(last.heap[i].args) > 0

-----------------------------------------------------------------------------
\* C16: when the stage is over its block has no Assign of a keyword-free call
\* whose callee resolves to print, and every Print node with a resolvable
\* argument has a non-empty constant mapping.
C16_StagePostcondition ==
    pc = "done" =>
        \A i \in Range(blocks[block]) :
            /\ ~IsPrintCall(heap, interp, i)
            /\ (IsPrintNode(heap, i) /\ Resolved(heap, interp, i) # {}) =>
                   DOMAIN heap[i].consts # {}

\* The first run ended with a Print node that was a print call with a vararg,
\* an annotated Print node, and a Print node without resolvable argument.
C16_Witness ==
    /\ pc = "done"
    /\ runs = 1
    /\ \E i \in Range(blocks[block]) : IsPrintNode(heap, i) /\ heap[i].vararg # None
    /\ \E i \in Range(blocks[block]) : IsPrintNode(heap, i) /\ DOMAIN heap[i].consts # {}
    /\ \E i \in Range(blocks[block]) :
         IsPrintNode(heap, i) /\ DOMAIN heap[i].consts = {} /\ Len(heap[i].args) > 0

-----------------------------------------------------------------------------
\* C17: one cycle of RewritePrintCalls rewrites every print call of the block:
\* the block apply returns has as many instructions as the scanned block plus
\* the size of the plan, none of them a print call, and the match of a fresh
\* instance on it returns false.
C17_OneProductiveCycle ==
    /\ AfterApply("RewritePrintCalls") =>
         /\ Len(blocks[block]) = Len(last.body) + Cardinality(DOMAIN last.plan)
         /\ \A i \in Range(blocks[block]) : ~IsPrintCall(heap, interp, i)
    /\ (AfterMatch("RewritePrintCalls") /\ last.block # stage_in.block) => ~last.ret

\* The match of a fresh instance returned false on a block in which apply had
\* replaced two print calls.
C17_Witness ==
    /\ AfterMatch("RewritePrintCalls")
    /\ last.block # stage_in.block
    /\ ~last.ret
    /\ Len(last.body) = Len(stage_in.body) + 2

====
